---- MODULE Spec2Model ----
(***************************************************************************)
(* A model of the JSON codec of strong_typing: object_to_json (encode),    *)
(* _json_to_object (decode) and the type inspection helpers they use.      *)
(*                                                                         *)
(* Python values (JSON data and native objects alike) are records tagged   *)
(* with the name of their Python type in field k; a raised exception is a  *)
(* record of kind "raise".  Text is a sequence of tokens, so that the      *)
(* conversions between text and values are computed and not assumed.       *)
(* Type annotations are records tagged in field t.                         *)
(***************************************************************************)
EXTENDS Integers, Sequences, FiniteSets, TLC

VARIABLES typ, data, native, json, result, tried, pc, stack

vars == <<typ, data, native, json, result, tried, pc, stack>>

(***************************************************************************)
(* Bounds of the explored inputs.                                          *)
(***************************************************************************)
MaxInt == 2
MaxLen == 2

(***************************************************************************)
(* Python values                                                           *)
(***************************************************************************)
PyNone == [k |-> "NoneType"]
PyBool(b) == [k |-> "bool", v |-> b]
PyInt(i) == [k |-> "int", v |-> i]
\* a float is counted in halves: PyFloat(3) is 1.5
PyFloat(h) == [k |-> "float", v |-> h]
PyStr(s) == [k |-> "str", v |-> s]
PyBytes(b) == [k |-> "bytes", v |-> b]
PyList(s) == [k |-> "list", v |-> s]
PyTuple(s) == [k |-> "tuple", v |-> s]
PySet(s) == [k |-> "set", v |-> s]
\* a dict is the sequence of its items in insertion order, keys distinct
PyDict(items) == [k |-> "dict", v |-> items]
PyEnum(cls, value) == [k |-> "enum", cls |-> cls, v |-> value]
PyObject(cls, attrs) == [k |-> "instance", cls |-> cls, v |-> attrs]
Raise(exc) == [k |-> "raise", exc |-> exc]

IsRaise(r) == r.k = "raise"

\* the sentinel dataclasses.MISSING
MISSING == [k |-> "MISSING"]

(***************************************************************************)
(* Helpers over sequences and dict items                                   *)
(***************************************************************************)
Range(s) == {s[i] : i \in 1..Len(s)}

\* the first raised element of a sequence of outcomes, evaluated in order
FirstRaise(s) == s[CHOOSE i \in 1..Len(s) : IsRaise(s[i]) /\ \A j \in 1..(i-1) : ~IsRaise(s[j])]

AnyRaise(s) == \E i \in 1..Len(s) : IsRaise(s[i])

DictKeys(items) == {items[i][1] : i \in 1..Len(items)}

DictGet(items, key) == items[CHOOSE i \in 1..Len(items) : items[i][1] = key][2]

\* dict.__setitem__: an existing key keeps its position and takes the new value
DictSet(items, key, value) ==
    IF key \in DictKeys(items)
    THEN [i \in 1..Len(items) |-> IF items[i][1] = key THEN <<key, value>> ELSE items[i]]
    ELSE Append(items, <<key, value>>)

RECURSIVE DictFromPairs(_)
\* dict(generator of pairs)
DictFromPairs(pairs) ==
    IF pairs = <<>> THEN <<>>
    ELSE DictSet(DictFromPairs(SubSeq(pairs, 1, Len(pairs) - 1)),
                 pairs[Len(pairs)][1], pairs[Len(pairs)][2])

(***************************************************************************)
(* Type annotations                                                        *)
(***************************************************************************)
NoneT == [t |-> "NoneType"]
BoolT == [t |-> "bool"]
IntT == [t |-> "int"]
FloatT == [t |-> "float"]
StrT == [t |-> "str"]
BytesT == [t |-> "bytes"]
DatetimeT == [t |-> "datetime"]
DateT == [t |-> "date"]
TimeT == [t |-> "time"]
UuidT == [t |-> "UUID"]
ListT(a) == [t |-> "list", args |-> <<a>>]
DictT(key, value) == [t |-> "dict", args |-> <<key, value>>]
SetT(a) == [t |-> "set", args |-> <<a>>]
TupleT(args) == [t |-> "tuple", args |-> args]
\* typing.Union[...] as typing builds it: at least two distinct members, no
\* member a Union itself
UnionT(args) == [t |-> "Union", args |-> args]
\* typing.Optional[a] is Union[a, None]; the members of a Union are spliced in
OptionalT(a) == IF a.t = "Union" THEN UnionT(Append(a.args, NoneT)) ELSE UnionT(<<a, NoneT>>)
\* a union expression of Python 3.10, `a | b`: an instance of types.UnionType,
\* whose typing.get_origin is types.UnionType and not typing.Union
UnionExpr(args) == [t |-> "UnionType", args |-> args]
\* typing.Annotated[a, ...]
AnnotatedT(a) == [t |-> "Annotated", args |-> <<a>>]
\* a forward reference to a class by name, as in a self-referential dataclass
ForwardRef(name) == [t |-> "ForwardRef", name |-> name]
EnumT(name, values) == [t |-> "enum", name |-> name, values |-> values]
Field(name, type, default, default_factory) ==
    [name |-> name, type |-> type, default |-> default, default_factory |-> default_factory]
DataclassT(name, fields) == [t |-> "dataclass", name |-> name, fields |-> fields]
NamedTupleT(name, fields) == [t |-> "namedtuple", name |-> name, fields |-> fields]
\* a plain class with annotated properties
ClassT(name, fields) == [t |-> "class", name |-> name, fields |-> fields]

(***************************************************************************)
(* Text conversions of the standard library, over token sequences          *)
(***************************************************************************)
Digits == <<"0", "1", "2", "3", "4", "5", "6", "7", "8", "9">>

DigitValue(d) == (CHOOSE i \in 1..10 : Digits[i] = d) - 1

RECURSIVE IntToStr(_)
\* str(i) for an int i >= 0
IntToStr(i) == IF i < 10 THEN <<Digits[i + 1]>> ELSE Append(IntToStr(i \div 10), Digits[(i % 10) + 1])

RECURSIVE DigitsToInt(_)
DigitsToInt(s) ==
    IF Len(s) = 1 THEN DigitValue(s[1])
    ELSE 10 * DigitsToInt(SubSeq(s, 1, Len(s) - 1)) + DigitValue(s[Len(s)])

\* int(text)
StrToInt(s) ==
    IF s # <<>> /\ \A i \in 1..Len(s) : s[i] \in Range(Digits)
    THEN PyInt(DigitsToInt(s))
    ELSE Raise("ValueError")

Offsets == {"+00:00", "+02:00"}

\* datetime.datetime.fromisoformat(text)
DatetimeFromIso(s) ==
    IF s = <<"D">> THEN [k |-> "datetime", v |-> [date |-> "D", time |-> "00:00:00", tz |-> "naive"]]
    ELSE IF Len(s) = 3 /\ s[1] = "D" /\ s[2] = "T" /\ s[3] = "t"
    THEN [k |-> "datetime", v |-> [date |-> "D", time |-> "t", tz |-> "naive"]]
    ELSE IF Len(s) = 4 /\ s[1] = "D" /\ s[2] = "T" /\ s[3] = "t" /\ s[4] \in Offsets
    THEN [k |-> "datetime", v |-> [date |-> "D", time |-> "t", tz |-> s[4]]]
    ELSE Raise("ValueError")

\* datetime.datetime.isoformat()
DatetimeIsoformat(d) ==
    <<d.v.date, "T", d.v.time>> \o (IF d.v.tz = "naive" THEN <<>> ELSE <<d.v.tz>>)

\* datetime.date.fromisoformat(text)
DateFromIso(s) == IF s = <<"D">> THEN [k |-> "date", v |-> "D"] ELSE Raise("ValueError")

\* datetime.time.fromisoformat(text)
TimeFromIso(s) ==
    IF s = <<"t">> THEN [k |-> "time", v |-> [time |-> "t", tz |-> "naive"]]
    ELSE IF Len(s) = 2 /\ s[1] = "t" /\ s[2] \in Offsets
    THEN [k |-> "time", v |-> [time |-> "t", tz |-> s[2]]]
    ELSE Raise("ValueError")

TimeIsoformat(d) == <<d.v.time>> \o (IF d.v.tz = "naive" THEN <<>> ELSE <<d.v.tz>>)

\* uuid.UUID(text): the canonical form, or the same in braces
UuidFromStr(s) ==
    IF s = <<"u">> \/ s = <<"{", "u", "}">> THEN [k |-> "UUID", v |-> "u"]
    ELSE Raise("ValueError")

\* str(uuid.UUID)
UuidToStr(u) == <<u.v>>

\* the complete Base64 groups of the model and the bytes each stands for
B64Groups == {"QQ==", "QUJD"}
B64GroupBytes(g) == IF g = "QQ==" THEN <<65>> ELSE <<65, 66, 67>>
\* characters outside the Base64 alphabet, which b64decode discards
B64Ignored == {"{", "}", "!"}

RECURSIVE B64Bytes(_)
B64Bytes(s) ==
    IF s = <<>> THEN <<>>
    ELSE IF s[1] \in B64Ignored THEN B64Bytes(Tail(s))
    ELSE B64GroupBytes(s[1]) \o B64Bytes(Tail(s))

\* base64.b64decode(text): text that is not whole groups is an error
\* (binascii.Error, a ValueError)
B64Decode(s) ==
    IF \A i \in 1..Len(s) : s[i] \in B64Groups \cup B64Ignored
    THEN PyBytes(B64Bytes(s))
    ELSE Raise("ValueError")

RECURSIVE B64Encode(_)
\* base64.b64encode(bytes).decode("ascii")
B64Encode(b) ==
    IF b = <<>> THEN <<>>
    ELSE IF Len(b) >= 3 THEN <<"QUJD">> \o B64Encode(SubSeq(b, 4, Len(b)))
    ELSE <<"QQ==">>

(***************************************************************************)
(* Type inspection                                                         *)
(***************************************************************************)
is_type_annotated(t) == t.t = "Annotated"

unwrap_annotated_type(t) == IF is_type_annotated(t) THEN t.args[1] ELSE t

_is_union_like(t) == t.t = "Union" \/ t.t = "UnionType"

is_type_optional(t, strict) ==
    LET u == unwrap_annotated_type(t) IN
    IF _is_union_like(u)
    THEN IF strict /\ Len(u.args) # 2 THEN FALSE ELSE NoneT \in Range(u.args)
    ELSE FALSE

\* Union[members]: typing gives back the member itself when only one is left
MakeUnion(args) == IF Len(args) = 1 THEN args[1] ELSE UnionT(args)

_unwrap_optional_type(t) ==
    IF t.t # "Union" THEN Raise("TypeError")
    ELSE MakeUnion(SelectSeq(t.args, LAMBDA a : a # NoneT))

\* rewrap_annotated_type(_unwrap_optional_type, t): an exception of the
\* transform leaves the function before the type is boxed again
rewrap_annotated_type_optional(t) ==
    IF is_type_annotated(t)
    THEN LET transformed_type == _unwrap_optional_type(t.args[1]) IN
         IF "exc" \in DOMAIN transformed_type THEN transformed_type
         ELSE [t EXCEPT !.args = <<transformed_type>>]
    ELSE _unwrap_optional_type(t)

unwrap_optional_type(t) == rewrap_annotated_type_optional(t)

\* a mutation: a union that has None among its members is never a union
is_type_union_without_none(t) ==
    LET u == unwrap_annotated_type(t) IN
    IF _is_union_like(u) THEN NoneT \notin Range(u.args) ELSE FALSE

is_type_union(t) ==
    LET u == unwrap_annotated_type(t) IN
    IF _is_union_like(u) THEN Len(u.args) > 2 \/ NoneT \notin Range(u.args) ELSE FALSE

\* typing.get_origin(t) is not None: a subscripted generic or a union
HasOrigin(t) == t.t \in {"list", "dict", "set", "tuple", "Union", "UnionType"}

RECURSIVE get_referenced_types_keeps_none(_)
\* a mutation: None is a referenced type like any other
get_referenced_types_keeps_none(t) ==
    IF "args" \in DOMAIN t
    THEN IF t.args = <<>> THEN <<>>
         ELSE get_referenced_types_keeps_none(t.args[1])
              \o get_referenced_types_keeps_none([t EXCEPT !.args = Tail(t.args)])
    ELSE <<t>>

RECURSIVE get_referenced_types(_), ExtendAll(_, _)
\* result.extend(get_referenced_types(arg)) for the arguments from position i on
ExtendAll(args, i) ==
    IF i > Len(args) THEN <<>>
    ELSE get_referenced_types(args[i]) \o ExtendAll(args, i + 1)

get_referenced_types(t) ==
    IF is_type_annotated(t) THEN get_referenced_types(t.args[1])
    ELSE IF HasOrigin(t) THEN ExtendAll(t.args, 1)
    ELSE IF t # NoneT THEN <<t>>
    ELSE <<>>

is_dataclass_type(t) == unwrap_annotated_type(t).t = "dataclass"

is_named_tuple_type(t) == unwrap_annotated_type(t).t = "namedtuple"

\* inspect.isclass: a class object, not a generic alias or special form
isclass(t) == t.t \in {"dataclass", "namedtuple", "enum", "class", "NoneType", "bool", "int",
                       "float", "str", "bytes", "datetime", "date", "time", "UUID"}

\* the self-referential record of the model: a linked list node
Node ==
    DataclassT("Node", <<Field(<<"value">>, IntT, MISSING, MISSING),
                         Field(<<"next">>, OptionalT(ForwardRef("Node")), MISSING, MISSING)>>)

\* the classes a forward reference can name
ClassByName(name) == Node

RECURSIVE ResolveRefs(_)
\* typing.get_type_hints evaluates the forward references of an annotation
ResolveRefs(t) ==
    IF t.t = "ForwardRef" THEN ClassByName(t.name)
    ELSE IF t.t \in {"list", "dict", "set", "tuple", "Union", "UnionType", "Annotated"}
    THEN [t EXCEPT !.args = [i \in 1..Len(t.args) |-> ResolveRefs(t.args[i])]]
    ELSE t

get_resolved_hints(t, field) == ResolveRefs(field.type)

\* keywords of Python that an identifier avoids with a trailing underscore
Keywords == {"in", "from"}

\* the naming policy: `in_` is written `in`
python_id_to_json_field(name) ==
    IF Len(name) = 2 /\ name[2] = "_" /\ name[1] \in Keywords THEN <<name[1]>> ELSE name

\* an instance whose fields are not set yet; __init__ is not run
create_object(t) == PyObject(t, <<>>)

\* a class that defines from_json / to_json carries the attribute
WithFromJson(t) == [from_json |-> "callable"] @@ t
WithToJson(t) == [to_json |-> "callable"] @@ t

\* callable(getattr(typ, "from_json", None))
HasFromJson(t) == "from_json" \in DOMAIN t

\* callable(getattr(obj, "to_json", None))
HasToJson(obj) == "to_json" \in DOMAIN obj.cls

\* typ.from_json(data): what the class makes of the raw data
CallFromJson(t, d) == [k |-> "made", by |-> t.name, v |-> d]

\* obj.to_json(): what the object writes for itself
CallToJson(obj) == PyStr(<<"made", obj.cls.name>>)

\* setattr(obj, name, value) for each field in turn
SetAttrs(obj, fields, values) ==
    [obj EXCEPT !.v = [n \in {fields[i].name : i \in 1..Len(fields)} |->
                          values[CHOOSE i \in 1..Len(fields) : fields[i].name = n]]]

(***************************************************************************)
(* Decoding: _json_to_object                                               *)
(***************************************************************************)
RECURSIVE json_to_object(_, _), _json_to_object(_, _), UnionLoop(_, _, _)

isinstance_int(d) == d.k \in {"int", "bool"}

\* int(data) for a bool or an int
int_of(d) == IF d.k = "bool" THEN PyInt(IF d.v THEN 1 ELSE 0) ELSE d

\* float(data) for a float, an int or a bool
float_of(d) == IF d.k = "float" THEN d ELSE PyFloat(2 * int_of(d).v)

_as_json_list(t, d) == IF d.k = "list" THEN d ELSE Raise("JsonTypeError")

_as_json_dict(t, d) == IF d.k = "dict" THEN d ELSE Raise("JsonTypeError")

\* key_type(key): the key type called on the text of an object key
KeyFromStr(key_type, key) ==
    CASE key_type.t = "str" -> key
      [] key_type.t = "int" -> StrToInt(key.v)
      [] key_type.t = "bool" -> PyBool(key.v # <<>>)
      [] key_type.t = "enum" ->
            IF key \in Range(key_type.values) THEN PyEnum(key_type.name, key) ELSE Raise("ValueError")
      [] OTHER -> Raise("TypeError")

\* a mutation: only a key error makes the loop go on
UnionCatchesKeyOnly(exc) == exc = "JsonKeyError"

\* a mutation: a value error makes the loop go on too
UnionCatchesValueToo(exc) == exc \in {"JsonKeyError", "JsonTypeError", "JsonValueError", "ValueError"}

\* a mutation: the exhausted loop reports a type mismatch
UnionExhaustedTypeError == Raise("JsonTypeError")

\* what the loop raises when no member is left
UnionExhausted == Raise("JsonKeyError")

\* the exceptions that make the Union loop go on to the next member
UnionCatches(exc) == exc \in {"JsonKeyError", "JsonTypeError"}

\* the members of a Union in the order the loop visits them
UnionMembers(t) == t.args

\* the loop over the members from position i on: the outcome and the number of
\* members attempted
UnionLoop(args, d, i) ==
    IF i > Len(args) THEN [r |-> UnionExhausted, n |-> Len(args)]
    ELSE LET r == json_to_object(args[i], d) IN
         IF IsRaise(r) /\ UnionCatches(r.exc) THEN UnionLoop(args, d, i + 1)
         ELSE [r |-> r, n |-> i]

\* the outcome for an absent key of a dataclass field
MissingField(f, field_type) ==
    IF f.default # MISSING THEN f.default
    ELSE IF f.default_factory # MISSING THEN f.default_factory.makes
    ELSE IF is_type_optional(field_type, FALSE) THEN PyNone
    ELSE Raise("JsonKeyError")

\* the value of one field of a dataclass
DataclassField(t, f, d) ==
    LET field_type == get_resolved_hints(t, f)
        json_name == PyStr(python_id_to_json_field(f.name))
    IN IF json_name \in DictKeys(d.v)
       THEN json_to_object(IF is_type_optional(field_type, FALSE)
                           THEN unwrap_optional_type(field_type) ELSE field_type,
                           DictGet(d.v, json_name))
       ELSE MissingField(f, field_type)

\* the keys of the object that no field of the dataclass has claimed
unassigned_names(t, d) ==
    DictKeys(d.v) \ {PyStr(python_id_to_json_field(t.fields[i].name)) : i \in 1..Len(t.fields)}

DecodeDataclass(t, data_) ==
    LET d == _as_json_dict(t, data_) IN
    IF IsRaise(d) THEN d
    ELSE LET values == [i \in 1..Len(t.fields) |-> DataclassField(t, t.fields[i], d)] IN
         IF AnyRaise(values) THEN FirstRaise(values)
         ELSE IF unassigned_names(t, d) # {} THEN Raise("JsonKeyError")
         ELSE SetAttrs(create_object(t), t.fields, values)

\* the value of one field of a named tuple: the object is indexed by the field name
NamedTupleField(t, f, d) ==
    IF PyStr(f.name) \in DictKeys(d.v)
    THEN json_to_object(get_resolved_hints(t, f), DictGet(d.v, PyStr(f.name)))
    ELSE Raise("KeyError")

DecodeNamedTuple(t, data_) ==
    LET d == _as_json_dict(t, data_) IN
    IF IsRaise(d) THEN d
    ELSE LET values == [i \in 1..Len(t.fields) |-> NamedTupleField(t, t.fields[i], d)] IN
         IF AnyRaise(values) THEN FirstRaise(values)
         ELSE SetAttrs(create_object(t), t.fields, values)

\* the value of one property of a plain class
ClassProperty(t, f, d) ==
    LET property_type == get_resolved_hints(t, f)
        json_name == PyStr(python_id_to_json_field(f.name))
    IN IF is_type_optional(property_type, FALSE)
       THEN IF json_name \in DictKeys(d.v)
            THEN json_to_object(unwrap_optional_type(property_type), DictGet(d.v, json_name))
            ELSE PyNone
       ELSE IF json_name \in DictKeys(d.v)
            THEN json_to_object(property_type, DictGet(d.v, json_name))
            ELSE Raise("JsonKeyError")

DecodeClass(t, data_) ==
    LET d == _as_json_dict(t, data_) IN
    IF IsRaise(d) THEN d
    ELSE LET values == [i \in 1..Len(t.fields) |-> ClassProperty(t, t.fields[i], d)] IN
         IF AnyRaise(values) THEN FirstRaise(values)
         ELSE SetAttrs(create_object(t), t.fields, values)

\* the number a bool, int or float stands for, in halves
Numeric(d) == IF d.k = "float" THEN d.v ELSE 2 * int_of(d).v

\* Python's ==, which compares numbers by value whatever their type
PyEquals(a, b) ==
    IF a.k \in {"bool", "int", "float"} /\ b.k \in {"bool", "int", "float"}
    THEN Numeric(a) = Numeric(b)
    ELSE a = b

\* typ(data) for an enumeration: the member with an equal value
DecodeEnum(t, d) ==
    IF \E i \in 1..Len(t.values) : PyEquals(t.values[i], d)
    THEN PyEnum(t.name, t.values[CHOOSE i \in 1..Len(t.values) : PyEquals(t.values[i], d)])
    ELSE Raise("ValueError")

DecodeDatetime(d) ==
    LET text == IF d.v # <<>> /\ d.v[Len(d.v)] = "Z"
                THEN Append(SubSeq(d.v, 1, Len(d.v) - 1), "+00:00") ELSE d.v
        timestamp == DatetimeFromIso(text)
    IN IF IsRaise(timestamp) THEN timestamp
       ELSE IF timestamp.v.tz = "naive" THEN Raise("JsonValueError")
       ELSE timestamp

DecodeList(t, data_) ==
    LET d == _as_json_list(t, data_) IN
    IF IsRaise(d) THEN d
    ELSE LET items == [i \in 1..Len(d.v) |-> json_to_object(t.args[1], d.v[i])] IN
         IF AnyRaise(items) THEN FirstRaise(items) ELSE PyList(items)

DecodeSet(t, data_) ==
    LET d == _as_json_list(t, data_) IN
    IF IsRaise(d) THEN d
    ELSE LET items == [i \in 1..Len(d.v) |-> json_to_object(t.args[1], d.v[i])] IN
         IF AnyRaise(items) THEN FirstRaise(items) ELSE PySet(Range(items))

\* each item is a pair: the key is converted before the value is decoded
DecodeDict(t, data_) ==
    LET d == _as_json_dict(t, data_) IN
    IF IsRaise(d) THEN d
    ELSE LET keys == [i \in 1..Len(d.v) |-> KeyFromStr(t.args[1], d.v[i][1])]
             values == [i \in 1..Len(d.v) |-> json_to_object(t.args[2], d.v[i][2])]
             both == [i \in 1..(2 * Len(d.v)) |->
                         IF i % 2 = 1 THEN keys[(i + 1) \div 2] ELSE values[i \div 2]]
         IN IF AnyRaise(both) THEN FirstRaise(both)
            ELSE PyDict(DictFromPairs([i \in 1..Len(d.v) |-> <<keys[i], values[i]>>]))

\* a mutation: an array that is not as long as the tuple is a type mismatch
DecodeTupleSameLength(t, data_) ==
    LET d == _as_json_list(t, data_) IN
    IF IsRaise(d) THEN d
    ELSE IF Len(d.v) # Len(t.args) THEN Raise("JsonTypeError")
    ELSE LET items == [i \in 1..Len(d.v) |-> json_to_object(t.args[i], d.v[i])]
         IN IF AnyRaise(items) THEN FirstRaise(items) ELSE PyTuple(items)

\* zip(members, items) stops at the shorter of the two
DecodeTuple(t, data_) ==
    LET d == _as_json_list(t, data_) IN
    IF IsRaise(d) THEN d
    ELSE LET n == IF Len(t.args) < Len(d.v) THEN Len(t.args) ELSE Len(d.v)
             items == [i \in 1..n |-> json_to_object(t.args[i], d.v[i])]
         IN IF AnyRaise(items) THEN FirstRaise(items) ELSE PyTuple(items)

_json_to_object(t, d) ==
    CASE t.t = "NoneType" -> IF d # PyNone THEN Raise("JsonTypeError") ELSE PyNone
      [] t.t = "bool" -> IF d.k # "bool" THEN Raise("JsonTypeError") ELSE d
      [] t.t = "int" -> IF ~isinstance_int(d) THEN Raise("JsonTypeError") ELSE int_of(d)
      [] t.t = "float" ->
            IF d.k # "float" /\ ~isinstance_int(d) THEN Raise("JsonTypeError") ELSE float_of(d)
      [] t.t = "str" -> IF d.k # "str" THEN Raise("JsonTypeError") ELSE d
      [] t.t = "bytes" -> IF d.k # "str" THEN Raise("JsonTypeError") ELSE B64Decode(d.v)
      [] t.t = "datetime" -> IF d.k # "str" THEN Raise("JsonTypeError") ELSE DecodeDatetime(d)
      [] t.t = "date" -> IF d.k # "str" THEN Raise("JsonTypeError") ELSE DateFromIso(d.v)
      [] t.t = "time" -> IF d.k # "str" THEN Raise("JsonTypeError") ELSE TimeFromIso(d.v)
      [] t.t = "UUID" -> IF d.k # "str" THEN Raise("JsonTypeError") ELSE UuidFromStr(d.v)
      [] t.t = "list" -> DecodeList(t, d)
      [] t.t = "dict" -> DecodeDict(t, d)
      [] t.t = "set" -> DecodeSet(t, d)
      [] t.t = "tuple" -> DecodeTuple(t, d)
      [] t.t = "Union" -> UnionLoop(UnionMembers(t), d, 1).r
      [] OTHER ->
            IF ~isclass(t) THEN Raise("TypeError")
            ELSE IF is_named_tuple_type(t) THEN DecodeNamedTuple(t, d)
            ELSE IF t.t = "enum" THEN DecodeEnum(t, d)
            ELSE IF HasFromJson(t) THEN CallFromJson(t, d)
            ELSE IF is_dataclass_type(t) THEN DecodeDataclass(t, d)
            ELSE DecodeClass(t, d)

\* the parser that create_deserializer builds for a type runs the decoding
\* algorithm of the type
parse(t, d) == _json_to_object(t, d)

json_to_object(t, d) == parse(t, d)

(***************************************************************************)
(* Encoding: object_to_json                                                *)
(***************************************************************************)
RECURSIVE object_to_json(_)

\* str(key) for the key of a dict
ToStr(key) ==
    CASE key.k = "str" -> key
      [] key.k = "int" -> PyStr(IntToStr(key.v))
      [] key.k = "bool" -> PyStr(IF key.v THEN <<"True">> ELSE <<"False">>)
      [] key.k = "NoneType" -> PyStr(<<"None">>)
      [] key.k = "enum" -> PyStr(<<key.cls, ".", "member">>)
      [] OTHER -> PyStr(<<"repr">>)

\* key.value: only an enumeration member has the attribute
KeyValue(key) == IF key.k = "enum" THEN key.v ELSE Raise("AttributeError")

\* the items of a set in the order the iteration happens to visit them
SetToSeq(S) == CHOOSE s \in [1..Cardinality(S) -> S] : Range(s) = S

EncodeItems(items) ==
    LET out == [i \in 1..Len(items) |-> object_to_json(items[i])] IN
    IF AnyRaise(out) THEN FirstRaise(out) ELSE PyList(out)

EncodeDict(obj) ==
    LET byValue == obj.v # <<>> /\ obj.v[1][1].k = "enum"
        keys == [i \in 1..Len(obj.v) |->
                    IF byValue THEN KeyValue(obj.v[i][1]) ELSE ToStr(obj.v[i][1])]
        values == [i \in 1..Len(obj.v) |-> object_to_json(obj.v[i][2])]
        both == [i \in 1..(2 * Len(obj.v)) |->
                    IF i % 2 = 1 THEN keys[(i + 1) \div 2] ELSE values[i \div 2]]
    IN IF AnyRaise(both) THEN FirstRaise(both)
       ELSE PyDict(DictFromPairs([i \in 1..Len(obj.v) |-> <<keys[i], values[i]>>]))

\* the tokens that begin a name, in alphabetical order
NameOrder == <<"a", "b", "in", "next", "value">>

NameRank(name) == CHOOSE i \in 1..Len(NameOrder) : NameOrder[i] = name[1]

\* dir(obj): the names in alphabetical order
SortedFields(fields) ==
    CHOOSE s \in [1..Len(fields) -> Range(fields)] :
        /\ Range(s) = Range(fields)
        /\ \A i, j \in 1..Len(fields) : i < j => NameRank(s[i].name) < NameRank(s[j].name)

\* the fields of an instance in the order the encoder visits them: declaration
\* order for a dataclass or a named tuple, dir() order for another object
VisitedFields(obj) ==
    IF obj.cls.t \in {"dataclass", "namedtuple"} THEN obj.cls.fields ELSE SortedFields(obj.cls.fields)

\* a mutation: every field is written, None or not
WrittenFieldsAll(obj) == VisitedFields(obj)

\* the fields of a record that are written: those whose value is not None
WrittenFields(obj) == SelectSeq(VisitedFields(obj), LAMBDA f : obj.v[f.name] # PyNone)

\* a dataclass or named tuple instance: one key per field that is not None
EncodeFields(obj) ==
    LET fields == WrittenFields(obj)
        values == [i \in 1..Len(fields) |-> object_to_json(obj.v[fields[i].name])]
    IN IF AnyRaise(values) THEN FirstRaise(values)
       ELSE PyDict(DictFromPairs([i \in 1..Len(fields) |->
                <<PyStr(python_id_to_json_field(fields[i].name)), values[i]>>]))

\* a mutation: the offset of UTC is written as isoformat() gives it
EncodeDatetimeKeepsOffset(obj) ==
    IF obj.v.tz = "naive" THEN Raise("JsonValueError") ELSE PyStr(DatetimeIsoformat(obj))

EncodeDatetime(obj) ==
    IF obj.v.tz = "naive" THEN Raise("JsonValueError")
    ELSE LET fmt == DatetimeIsoformat(obj) IN
         IF fmt[Len(fmt)] = "+00:00"
         THEN PyStr(Append(SubSeq(fmt, 1, Len(fmt) - 1), "Z"))
         ELSE PyStr(fmt)

object_to_json(obj) ==
    CASE obj.k = "NoneType" -> PyNone
      [] obj.k \in {"bool", "int", "float", "str"} -> obj
      [] obj.k = "bytes" -> PyStr(B64Encode(obj.v))
      [] obj.k = "datetime" -> EncodeDatetime(obj)
      [] obj.k = "date" -> PyStr(<<obj.v>>)
      [] obj.k = "time" -> PyStr(TimeIsoformat(obj))
      [] obj.k = "UUID" -> PyStr(UuidToStr(obj))
      [] obj.k = "enum" -> obj.v
      [] obj.k = "list" -> EncodeItems(obj.v)
      [] obj.k = "dict" -> EncodeDict(obj)
      [] obj.k = "set" -> EncodeItems(SetToSeq(obj.v))
      [] obj.k = "instance" -> IF HasToJson(obj) THEN CallToJson(obj) ELSE EncodeFields(obj)
      [] obj.k = "tuple" -> EncodeItems(obj.v)
      [] OTHER -> Raise("TypeError")

(***************************************************************************)
(* The types and values explored                                           *)
(***************************************************************************)
Side == EnumT("Side", <<PyStr(<<"L">>), PyStr(<<"R">>)>>)
Suit == EnumT("Suit", <<PyInt(1), PyInt(2)>>)

\* default_factory=int
IntFactory == [k |-> "factory", makes |-> PyInt(0)]

\* dataclasses of one field `a`: every way to declare its type and its default
\* (a field cannot have both a default and a default_factory)
SingleFieldRecords ==
    {DataclassT("R", <<Field(<<"a">>, ty, d[1], d[2])>>) :
        ty \in {IntT, OptionalT(IntT)},
        d \in {<<MISSING, MISSING>>, <<PyInt(2), MISSING>>, <<MISSING, IntFactory>>}}

RecA == DataclassT("R", <<Field(<<"a">>, IntT, MISSING, MISSING)>>)
RecB ==
    DataclassT("B", <<Field(<<"a">>, IntT, MISSING, MISSING),
                      Field(<<"b">>, OptionalT(IntT), MISSING, MISSING)>>)
RecS ==
    DataclassT("S", <<Field(<<"a">>, OptionalT(Side), MISSING, MISSING),
                      Field(<<"b">>, StrT, MISSING, MISSING)>>)
RecK == DataclassT("K", <<Field(<<"in", "_">>, IntT, MISSING, MISSING)>>)
TupP ==
    NamedTupleT("P", <<Field(<<"a">>, IntT, MISSING, MISSING),
                       Field(<<"b">>, OptionalT(IntT), PyNone, MISSING)>>)
TupQ == NamedTupleT("Q", <<Field(<<"a">>, IntT, MISSING, MISSING)>>)
\* a named tuple with a field named after a keyword
TupK == NamedTupleT("TK", <<Field(<<"in", "_">>, IntT, MISSING, MISSING)>>)
ObjO ==
    ClassT("O", <<Field(<<"b">>, OptionalT(IntT), MISSING, MISSING),
                  Field(<<"a">>, IntT, MISSING, MISSING)>>)

\* classes that define the hooks: an enumeration, a named tuple, a dataclass
\* and a plain class
EnumH == WithFromJson(EnumT("EnumH", <<PyInt(1), PyStr(<<"L">>)>>))
TupH == WithFromJson(NamedTupleT("TupH", <<Field(<<"a">>, IntT, MISSING, MISSING)>>))
RecH == WithFromJson(DataclassT("RecH", <<Field(<<"a">>, IntT, MISSING, MISSING)>>))
ObjH ==
    WithToJson(WithFromJson(
        ClassT("ObjH", <<Field(<<"a">>, IntT, MISSING, MISSING),
                         Field(<<"b">>, OptionalT(StrT), MISSING, MISSING)>>)))

HookedTypes == {EnumH, TupH, RecH, ObjH}

RecordTypes == SingleFieldRecords \cup {RecB, RecS, RecK, Node, TupP, TupQ, TupK, ObjO}

PrimitiveTypes == {NoneT, BoolT, IntT, FloatT, StrT, BytesT, DatetimeT, DateT, TimeT, UuidT}

\* the types that are members of the unions explored
MemberTypes == {BoolT, IntT, FloatT, StrT, BytesT, DatetimeT, Side, Suit, RecA, RecB, TupP}

UnionTypes ==
    ({UnionT(<<a, b>>) : a, b \in MemberTypes} \ {UnionT(<<a, a>>) : a \in MemberTypes})
    \cup {OptionalT(a) : a \in MemberTypes}
    \cup {UnionT(<<NoneT, IntT>>), UnionT(<<IntT, StrT, NoneT>>), UnionT(<<RecB, RecA, StrT>>),
          UnionT(<<ListT(UnionT(<<IntT, StrT>>)), ListT(NoneT)>>),
          UnionT(<<ListT(UnionT(<<BoolT, DatetimeT>>)), ListT(StrT)>>)}

ContainerTypes ==
    {ListT(a) : a \in {IntT, StrT, OptionalT(IntT), RecA}}
    \cup {SetT(a) : a \in {IntT, StrT}}
    \cup {TupleT(<<IntT>>), TupleT(<<IntT, StrT>>), TupleT(<<StrT, OptionalT(IntT)>>)}
    \cup {DictT(a, IntT) : a \in {StrT, IntT, BoolT, Side}}
    \cup {DictT(StrT, OptionalT(StrT))}

Types == PrimitiveTypes \cup {Side, Suit} \cup RecordTypes \cup UnionTypes \cup ContainerTypes

Texts ==
    {<<"a">>, <<"L">>, <<"1">>, <<"u">>, <<"{", "u", "}">>, <<"QQ==">>, <<"D">>, <<"t">>,
     <<"D", "T", "t">>, <<"D", "T", "t", "Z">>, <<"D", "T", "t", "+00:00">>,
     <<"D", "T", "t", "+02:00">>}

JsonScalars ==
    {PyNone, PyBool(TRUE), PyBool(FALSE), PyFloat(2), PyFloat(3)}
    \cup {PyInt(i) : i \in 0..MaxInt} \cup {PyStr(s) : s \in Texts}

\* the values JSON arrays and objects are made of
JsonItems == {PyNone, PyInt(1), PyStr(<<"a">>), PyBool(TRUE)}

SeqsUpTo(S, n) == UNION {[1..m -> S] : m \in 0..n}

JsonArrays == {PyList(s) : s \in SeqsUpTo(JsonItems, MaxLen)}

ObjectKeys == <<PyStr(<<"a">>), PyStr(<<"b">>), PyStr(<<"extra">>)>>

\* the objects over a subset of the keys, the keys in the order of ObjectKeys
JsonObjects ==
    {PyDict(SelectSeq([i \in 1..Len(ObjectKeys) |-> <<ObjectKeys[i], f[i]>>],
                      LAMBDA item : item[2] # MISSING)) :
        f \in [1..Len(ObjectKeys) -> {MISSING, PyNone, PyInt(1), PyStr(<<"L">>)}]}

MaxDepth == 2

RECURSIVE NodeObjects(_)
\* the JSON objects that spell a linked list of at most n nodes, and near misses
NodeObjects(n) ==
    IF n = 0 THEN {PyNone, PyStr(<<"a">>)}
    ELSE {PyDict(<<<<PyStr(<<"value">>), v>>>>) : v \in {PyInt(1), PyStr(<<"a">>)}}
         \cup {PyDict(<<<<PyStr(<<"value">>), PyInt(1)>>, <<PyStr(<<"next">>), nxt>>>>) :
                  nxt \in NodeObjects(n - 1)}

JsonNested ==
    NodeObjects(MaxDepth)
    \cup {PyDict(<<<<PyStr(<<"in">>), PyInt(1)>>>>), PyDict(<<<<PyStr(<<"in", "_">>), PyInt(1)>>>>),
          PyList(<<PyList(<<PyInt(1)>>), PyStr(<<"a">>)>>),
          PyList(<<PyDict(<<<<PyStr(<<"a">>), PyInt(1)>>>>)>>),
          PyList(<<PyBool(TRUE), PyStr(<<"D", "T", "t">>)>>),
          PyList(<<PyStr(<<"D", "T", "t", "Z">>)>>),
          PyDict(<<<<PyStr(<<"1">>), PyInt(1)>>, <<PyStr(<<"L">>), PyInt(2)>>>>),
          PyDict(<<<<PyStr(<<"a">>), PyStr(<<"a">>)>>, <<PyStr(<<"b">>), PyStr(<<"a">>)>>>>)}

JsonValues == JsonScalars \cup JsonArrays \cup JsonObjects \cup JsonNested

RECURSIVE Instances(_, _), InstanceSeqs(_, _)

\* the sequences of native values, one value of each of the types in turn
InstanceSeqs(types, n) ==
    IF types = <<>> THEN {<<>>}
    ELSE {<<v>> \o rest : v \in Instances(types[1], n), rest \in InstanceSeqs(Tail(types), n)}

\* native values of a type, nested at most n deep
Instances(t, n) ==
    CASE t.t = "NoneType" -> {PyNone}
      [] t.t = "bool" -> {PyBool(TRUE), PyBool(FALSE)}
      [] t.t = "int" -> {PyInt(i) : i \in 0..MaxInt}
      [] t.t = "float" -> {PyFloat(2), PyFloat(3)}
      [] t.t = "str" -> {PyStr(<<"a">>), PyStr(<<"QQ==">>), PyStr(<<"L">>)}
      [] t.t = "bytes" -> {PyBytes(<<>>), PyBytes(<<65>>), PyBytes(<<65, 66, 67>>)}
      [] t.t = "datetime" ->
            {[k |-> "datetime", v |-> [date |-> "D", time |-> "t", tz |-> z]] :
                z \in Offsets \cup {"naive"}}
      [] t.t = "date" -> {[k |-> "date", v |-> "D"]}
      [] t.t = "time" -> {[k |-> "time", v |-> [time |-> "t", tz |-> z]] : z \in {"naive", "+02:00"}}
      [] t.t = "UUID" -> {[k |-> "UUID", v |-> "u"]}
      [] t.t = "enum" -> {PyEnum(t.name, t.values[i]) : i \in 1..Len(t.values)}
      [] t.t = "list" -> {PyList(s) : s \in SeqsUpTo(Instances(t.args[1], n), MaxLen)}
      [] t.t = "set" -> {PySet(S) : S \in {X \in SUBSET Instances(t.args[1], n) : Cardinality(X) <= MaxLen}}
      [] t.t = "tuple" ->
            {PyTuple(s) : s \in InstanceSeqs(t.args, n)}
      [] t.t = "dict" ->
            {PyDict(<<>>)} \cup
            {PyDict(<<<<key, value>>>>) : key \in Instances(t.args[1], n), value \in Instances(t.args[2], n)}
            \cup {PyDict(<<<<ks[1], value>>, <<ks[2], value>>>>) :
                     ks \in {p \in Instances(t.args[1], n) \X Instances(t.args[1], n) : p[1] # p[2]},
                     value \in Instances(t.args[2], n)}
      [] t.t = "Union" -> UNION {Instances(t.args[i], n) : i \in 1..Len(t.args)}
      [] t.t = "ForwardRef" -> IF n = 0 THEN {} ELSE Instances(ClassByName(t.name), n - 1)
      [] OTHER ->
            {SetAttrs(create_object(t), t.fields, values) :
                values \in InstanceSeqs([i \in 1..Len(t.fields) |-> t.fields[i].type], n)}

(***************************************************************************)
(* The state machine: one decode, or one encode followed by the decode of  *)
(* what it wrote.  typ is the type annotation, data the JSON value that is *)
(* decoded, native the native value that is encoded, json what the encoder    *)
(* returned, result what the decoder returned, tried the number of members *)
(* a Union decode attempted.  stack is used where the calls are followed   *)
(* one by one, and is empty elsewhere.                                     *)
(***************************************************************************)
Nothing == [k |-> "nothing"]

Init ==
    /\ typ \in Types
    /\ \/ data \in JsonValues /\ native = Nothing
       \/ data = Nothing /\ native \in Instances(typ, MaxDepth)
    /\ json = Nothing
    /\ result = Nothing
    /\ tried = 0
    /\ stack = <<>>
    /\ pc = "start"

\* the number of members the decode of a Union went through
Attempts(t, d) == IF t.t = "Union" THEN UnionLoop(UnionMembers(t), d, 1).n ELSE 0

\* json_to_object(typ, data)
Decode ==
    /\ pc = "start"
    /\ data # Nothing
    /\ result' = json_to_object(typ, data)
    /\ tried' = Attempts(typ, data)
    /\ pc' = "decoded"
    /\ UNCHANGED <<stack, typ, data, native, json>>

\* object_to_json(obj)
Encode ==
    /\ pc = "start"
    /\ native # Nothing
    /\ json' = object_to_json(native)
    /\ pc' = "encoded"
    /\ UNCHANGED <<stack, typ, data, native, result, tried>>

\* json_to_object(typ, object_to_json(native)), when the encoder returned
DecodeEncoded ==
    /\ pc = "encoded"
    /\ ~IsRaise(json)
    /\ data' = json
    /\ result' = json_to_object(typ, json)
    /\ tried' = Attempts(typ, json)
    /\ pc' = "roundtrip"
    /\ UNCHANGED <<stack, typ, native, json>>

Next == Decode \/ Encode \/ DecodeEncoded

Spec == Init /\ [][Next]_vars

\* the same calls on the classes that define the hooks
InitHooks ==
    /\ typ \in HookedTypes
    /\ \/ data \in JsonValues /\ native = Nothing
       \/ data = Nothing /\ native \in Instances(typ, MaxDepth)
    /\ json = Nothing
    /\ result = Nothing
    /\ tried = 0
    /\ stack = <<>>
    /\ pc = "start"

SpecHooks == InitHooks /\ [][Next]_vars

\* maps whose keys are of more than one type
MapTypes == {DictT(UnionT(<<Side, StrT>>), IntT), DictT(UnionT(<<IntT, Suit>>), StrT)}

\* the same calls on the maps of mixed keys
InitMaps ==
    /\ typ \in MapTypes
    /\ \/ data \in JsonValues /\ native = Nothing
       \/ data = Nothing /\ native \in Instances(typ, MaxDepth)
    /\ json = Nothing
    /\ result = Nothing
    /\ tried = 0
    /\ stack = <<>>
    /\ pc = "start"

SpecMaps == InitMaps /\ [][Next]_vars

(***************************************************************************)
(* The inspection functions, called on a type annotation.  typ is the      *)
(* annotation, data the strict flag where there is one, result what the    *)
(* function returned.                                                      *)
(***************************************************************************)
\* the types that are members of the unions inspected
InspectMembers == {NoneT, IntT, StrT, BoolT}

\* the sequences of n distinct members
DistinctSeqs(S, n) == {q \in [1..n -> S] : \A i, j \in 1..n : i # j => q[i] # q[j]}

\* the member lists of a union: two members or more, None at any position or
\* at none
UnionArgs == UNION {DistinctSeqs(InspectMembers, n) : n \in 2..(MaxLen + 1)}

InspectUnions == {UnionT(args) : args \in UnionArgs} \cup {UnionExpr(args) : args \in UnionArgs}

InspectPlain == PrimitiveTypes \cup {Side, Suit, RecA, TupP, ObjO, Node}

InspectGenerics ==
    {ListT(a) : a \in {StrT, NoneT, OptionalT(IntT), ListT(StrT), RecA}}
    \cup {DictT(IntT, BoolT), DictT(StrT, ListT(OptionalT(Side))), DictT(IntT, IntT),
          SetT(IntT), TupleT(<<IntT, StrT>>), TupleT(<<StrT, OptionalT(IntT), StrT>>),
          UnionT(<<NoneT, IntT, DatetimeT>>), UnionT(<<ListT(IntT), DictT(StrT, BoolT)>>),
          UnionT(<<ListT(NoneT), NoneT>>)}

InspectAnnotated ==
    {AnnotatedT(a) : a \in {IntT, NoneT, OptionalT(IntT), UnionT(<<NoneT, IntT, StrT>>),
                            UnionT(<<IntT, StrT>>), UnionExpr(<<IntT, NoneT>>),
                            ListT(OptionalT(IntT)), DictT(IntT, AnnotatedT(BoolT))}}
    \cup {ListT(AnnotatedT(OptionalT(StrT)))}

InspectTypes == InspectUnions \cup InspectPlain \cup InspectGenerics \cup InspectAnnotated

InitInspect ==
    /\ typ \in InspectTypes
    /\ data = Nothing
    /\ native = Nothing
    /\ json = Nothing
    /\ result = Nothing
    /\ tried = 0
    /\ stack = <<>>
    /\ pc = "inspect"

\* is_type_optional(typ, strict)
IsTypeOptional ==
    /\ pc = "inspect"
    /\ \E strict \in BOOLEAN :
          /\ data' = PyBool(strict)
          /\ result' = PyBool(is_type_optional(typ, strict))
    /\ pc' = "is_type_optional"
    /\ UNCHANGED <<stack, typ, native, json, tried>>

\* is_type_union(typ)
IsTypeUnion ==
    /\ pc = "inspect"
    /\ result' = PyBool(is_type_union(typ))
    /\ pc' = "is_type_union"
    /\ UNCHANGED <<stack, typ, data, native, json, tried>>

\* unwrap_optional_type(typ)
UnwrapOptionalType ==
    /\ pc = "inspect"
    /\ result' = unwrap_optional_type(typ)
    /\ pc' = "unwrap_optional_type"
    /\ UNCHANGED <<stack, typ, data, native, json, tried>>

\* get_referenced_types(typ)
GetReferencedTypes ==
    /\ pc = "inspect"
    /\ result' = PyList(get_referenced_types(typ))
    /\ pc' = "get_referenced_types"
    /\ UNCHANGED <<stack, typ, data, native, json, tried>>

NextInspect == IsTypeOptional \/ IsTypeUnion \/ UnwrapOptionalType \/ GetReferencedTypes

SpecInspect == InitInspect /\ [][NextInspect]_vars

(***************************************************************************)
(* The calls of one decode or one encode, followed one by one.  stack      *)
(* holds a frame for every call of json_to_object or object_to_json that   *)
(* has not returned; the field acc of a frame holds the outcomes of the    *)
(* steps the call has carried out so far.                                  *)
(***************************************************************************)
DecodeFrame(t, d) == [fn |-> "json_to_object", typ |-> t, data |-> d, acc |-> <<>>]
EncodeFrame(obj) == [fn |-> "object_to_json", obj |-> obj, acc |-> <<>>]

\* what a call does in turn: a recursive call, or a step of its own with an
\* outcome (a key conversion, a default, a missing key)
CallStep(t, d) == [step |-> "call", typ |-> t, data |-> d]
EncodeStep(obj) == [step |-> "call", obj |-> obj]
OwnStep(r) == [step |-> "own", r |-> r]

\* a mutation: the decode of a field is given the whole object
FieldValueWhole(d, json_name) == d

\* json_field_data[json_name]
FieldValue(d, json_name) == DictGet(d.v, json_name)

\* the steps of _json_to_object(t, d) in the order of the code, were none to fail
DecodeSteps(t, d) ==
    CASE t.t \in {"list", "set"} ->
            IF d.k = "list" THEN [i \in 1..Len(d.v) |-> CallStep(t.args[1], d.v[i])] ELSE <<>>
      [] t.t = "dict" ->
            IF d.k = "dict"
            THEN [i \in 1..(2 * Len(d.v)) |->
                     IF i % 2 = 1 THEN OwnStep(KeyFromStr(t.args[1], d.v[(i + 1) \div 2][1]))
                     ELSE CallStep(t.args[2], d.v[i \div 2][2])]
            ELSE <<>>
      [] t.t = "tuple" ->
            IF d.k = "list"
            THEN [i \in 1..(IF Len(t.args) < Len(d.v) THEN Len(t.args) ELSE Len(d.v)) |->
                     CallStep(t.args[i], d.v[i])]
            ELSE <<>>
      [] t.t = "Union" -> [i \in 1..Len(t.args) |-> CallStep(t.args[i], d)]
      [] OTHER ->
            IF ~isclass(t) \/ t.t \notin {"namedtuple", "dataclass", "class"} \/ d.k # "dict" THEN <<>>
            ELSE IF is_named_tuple_type(t)
            THEN [i \in 1..Len(t.fields) |->
                     IF PyStr(t.fields[i].name) \in DictKeys(d.v)
                     THEN CallStep(get_resolved_hints(t, t.fields[i]), FieldValue(d, PyStr(t.fields[i].name)))
                     ELSE OwnStep(Raise("KeyError"))]
            ELSE IF HasFromJson(t) THEN <<>>
            ELSE [i \in 1..Len(t.fields) |->
                     LET field_type == get_resolved_hints(t, t.fields[i])
                         json_name == PyStr(python_id_to_json_field(t.fields[i].name))
                     IN IF json_name \in DictKeys(d.v)
                        THEN CallStep(IF is_type_optional(field_type, FALSE)
                                      THEN unwrap_optional_type(field_type) ELSE field_type,
                                      FieldValue(d, json_name))
                        ELSE IF is_dataclass_type(t) THEN OwnStep(MissingField(t.fields[i], field_type))
                        ELSE IF is_type_optional(field_type, FALSE) THEN OwnStep(PyNone)
                        ELSE OwnStep(Raise("JsonKeyError"))]

\* the steps of object_to_json(obj) in the order of the code
EncodeSteps(obj) ==
    CASE obj.k \in {"list", "tuple"} -> [i \in 1..Len(obj.v) |-> EncodeStep(obj.v[i])]
      [] obj.k = "set" -> [i \in 1..Cardinality(obj.v) |-> EncodeStep(SetToSeq(obj.v)[i])]
      [] obj.k = "dict" ->
            [i \in 1..(2 * Len(obj.v)) |->
                IF i % 2 = 1
                THEN OwnStep(IF obj.v[1][1].k = "enum" THEN KeyValue(obj.v[(i + 1) \div 2][1])
                             ELSE ToStr(obj.v[(i + 1) \div 2][1]))
                ELSE EncodeStep(obj.v[i \div 2][2])]
      [] obj.k = "instance" ->
            IF HasToJson(obj) THEN <<>>
            ELSE [i \in 1..Len(WrittenFields(obj)) |-> EncodeStep(obj.v[WrittenFields(obj)[i].name])]
      [] OTHER -> <<>>

FrameSteps(frame) ==
    IF frame.fn = "json_to_object" THEN DecodeSteps(frame.typ, frame.data) ELSE EncodeSteps(frame.obj)

\* whether the call goes on to its next step after a step of outcome r: the
\* Union loop goes on after an exception it catches, any other code after a
\* step that returned
GoesOn(frame, r) ==
    IF frame.fn = "json_to_object" /\ frame.typ.t = "Union"
    THEN IsRaise(r) /\ UnionCatches(r.exc)
    ELSE ~IsRaise(r)

\* the call has a step left and reaches it
HasNext(frame) ==
    /\ Len(frame.acc) < Len(FrameSteps(frame))
    /\ IF frame.acc = <<>> THEN TRUE ELSE GoesOn(frame, frame.acc[Len(frame.acc)])

NextStep(frame) == FrameSteps(frame)[Len(frame.acc) + 1]

\* the frame of a recursive call
FrameOf(frame, s) ==
    IF frame.fn = "json_to_object" THEN DecodeFrame(s.typ, s.data) ELSE EncodeFrame(s.obj)

\* what _json_to_object(t, d) returns once all its steps have returned
DecodeFinish(t, d, acc) ==
    CASE t.t = "list" -> PyList(acc)
      [] t.t = "set" -> PySet(Range(acc))
      [] t.t = "tuple" -> PyTuple(acc)
      [] t.t = "dict" -> PyDict(DictFromPairs([i \in 1..(Len(acc) \div 2) |-> <<acc[2 * i - 1], acc[2 * i]>>]))
      [] OTHER ->
            IF is_dataclass_type(t) /\ unassigned_names(t, d) # {} THEN Raise("JsonKeyError")
            ELSE SetAttrs(create_object(t), t.fields, acc)

\* what object_to_json(obj) returns once all its steps have returned
EncodeFinish(obj, acc) ==
    CASE obj.k \in {"list", "tuple", "set"} -> PyList(acc)
      [] obj.k = "dict" -> PyDict(DictFromPairs([i \in 1..(Len(acc) \div 2) |-> <<acc[2 * i - 1], acc[2 * i]>>]))
      [] OTHER ->
            PyDict(DictFromPairs([i \in 1..Len(acc) |->
                <<PyStr(python_id_to_json_field(WrittenFields(obj)[i].name)), acc[i]>>]))

\* the outcome of a call that has no step left to carry out: that of the code
\* that makes no recursive call, or the outcome at which the steps stopped,
\* or what is made of the outcomes of all the steps
Outcome(frame) ==
    IF FrameSteps(frame) = <<>>
    THEN IF frame.fn = "json_to_object" THEN json_to_object(frame.typ, frame.data)
         ELSE object_to_json(frame.obj)
    ELSE IF ~GoesOn(frame, frame.acc[Len(frame.acc)]) THEN frame.acc[Len(frame.acc)]
    ELSE IF frame.fn = "object_to_json" THEN EncodeFinish(frame.obj, frame.acc)
    ELSE IF frame.typ.t = "Union" THEN UnionExhausted
    ELSE DecodeFinish(frame.typ, frame.data, frame.acc)

\* the types whose decode is followed call by call
CallTypes ==
    {IntT, DatetimeT, Side, Node, RecB, RecS, TupP, TupK, ObjO, OptionalT(RecA),
     ListT(OptionalT(IntT)), ListT(RecA), SetT(IntT), TupleT(<<StrT, OptionalT(IntT)>>),
     DictT(StrT, OptionalT(StrT)), DictT(Side, IntT), DictT(IntT, IntT),
     UnionT(<<IntT, StrT, NoneT>>), UnionT(<<RecB, RecA, StrT>>),
     UnionT(<<ListT(UnionT(<<IntT, StrT>>)), ListT(NoneT)>>),
     UnionT(<<ListT(UnionT(<<BoolT, DatetimeT>>)), ListT(StrT)>>)}

\* no call is nested deeper than this in the calls that are followed
MaxStack == 4 * (MaxDepth + 1)

InitCalls ==
    /\ typ \in CallTypes
    /\ \/ data \in JsonValues /\ native = Nothing /\ stack = <<DecodeFrame(typ, data)>>
       \/ data = Nothing /\ native \in Instances(typ, MaxDepth) /\ stack = <<EncodeFrame(native)>>
    /\ json = Nothing
    /\ result = Nothing
    /\ tried = 0
    /\ pc = "called"

Top == stack[Len(stack)]

\* the call on top of the stack takes the outcome r of its step
Took(r) == [stack EXCEPT ![Len(stack)].acc = Append(@, r)]

\* the call on top of the stack carries out a step of its own
Proceed ==
    /\ pc = "called"
    /\ HasNext(Top)
    /\ NextStep(Top).step = "own"
    /\ stack' = Took(NextStep(Top).r)
    /\ UNCHANGED <<typ, data, native, json, result, tried, pc>>

\* the call on top of the stack makes its next recursive call
Call(fn) ==
    /\ pc = "called"
    /\ Top.fn = fn
    /\ HasNext(Top)
    /\ NextStep(Top).step = "call"
    /\ Len(stack) < MaxStack
    /\ stack' = Append(stack, FrameOf(Top, NextStep(Top)))
    /\ UNCHANGED <<typ, data, native, json, result, tried, pc>>

\* json_to_object calls json_to_object
CallJsonToObject == Call("json_to_object")

\* object_to_json calls object_to_json
CallObjectToJson == Call("object_to_json")

\* the call on top of the stack has no step left: it returns or raises, and
\* its caller takes the outcome; the outermost call leaves its outcome
Return ==
    /\ pc = "called"
    /\ ~HasNext(Top)
    /\ IF Len(stack) > 1
       THEN /\ stack' = [SubSeq(stack, 1, Len(stack) - 1) EXCEPT ![Len(stack) - 1].acc = Append(@, Outcome(Top))]
            /\ UNCHANGED <<json, result, pc>>
       ELSE /\ stack' = <<>>
            /\ pc' = "returned"
            /\ IF Top.fn = "json_to_object"
               THEN result' = Outcome(Top) /\ json' = json
               ELSE json' = Outcome(Top) /\ result' = result
    /\ UNCHANGED <<typ, data, native, tried>>

NextCalls == Proceed \/ CallJsonToObject \/ CallObjectToJson \/ Return

\* the interpreter runs a call until it returns
SpecCalls == InitCalls /\ [][NextCalls]_vars /\ WF_vars(NextCalls)

TypeOK ==
    /\ typ \in Types
    /\ pc \in {"start", "decoded", "encoded", "roundtrip"}
    /\ tried \in 0..3

(***************************************************************************)
(* Properties of Union decoding                                            *)
(***************************************************************************)
Decoded == pc \in {"decoded", "roundtrip"}

\* the outcome of decoding the data against member i of the Union typ
MemberOutcome(i) == json_to_object(typ.args[i], data)

\* member i fails with a key error or a type mismatch
MemberRejects(i) == IsRaise(MemberOutcome(i)) /\ MemberOutcome(i).exc \in {"JsonKeyError", "JsonTypeError"}

\* C1: decoding against a Union returns the outcome of the first member, in
\* declared order, that does not fail with a key error or a type mismatch, and
\* no member after it is attempted
C1_UnionFirstMatch ==
    (Decoded /\ typ.t = "Union") =>
        \A i \in 1..Len(typ.args) :
            (~MemberRejects(i) /\ \A j \in 1..(i - 1) : MemberRejects(j))
                => (result = MemberOutcome(i) /\ tried = i)

\* two members accept the data with different results and the first one wins
C1_Witness ==
    /\ pc = "decoded" /\ typ.t = "Union" /\ tried = 1
    /\ ~IsRaise(result)
    /\ ~IsRaise(MemberOutcome(2))
    /\ MemberOutcome(2) # result

\* C2: a value error of a member (a JsonValueError, or the ValueError of an
\* enum lookup or of a text parser) reached by the loop leaves the Union decode
\* as it is and no later member is attempted
C2_ValueErrorPropagates ==
    (Decoded /\ typ.t = "Union") =>
        \A i \in 1..Len(typ.args) :
            (/\ \A j \in 1..(i - 1) : MemberRejects(j)
             /\ IsRaise(MemberOutcome(i))
             /\ MemberOutcome(i).exc \in {"JsonValueError", "ValueError"})
                => (result = MemberOutcome(i) /\ tried = i)

\* the first member raises a value error and a later member accepts the data
C2_Witness ==
    /\ pc = "decoded" /\ typ.t = "Union" /\ tried = 1
    /\ result = Raise("JsonValueError")
    /\ ~IsRaise(MemberOutcome(2))

\* member i is a list of a Union no member of which takes the first item
InnerUnionExhausted(i) ==
    /\ typ.args[i].t = "list"
    /\ typ.args[i].args[1].t = "Union"
    /\ data.k = "list" /\ data.v # <<>>
    /\ LET inner == typ.args[i].args[1].args IN
       \A m \in 1..Len(inner) :
           LET r == json_to_object(inner[m], data.v[1]) IN
           IsRaise(r) /\ r.exc \in {"JsonKeyError", "JsonTypeError"}

\* C3: a Union all members of which fail with a key error or a type mismatch
\* fails with JsonKeyError, so that an enclosing Union goes on to its next
\* member
C3_UnionExhausted ==
    (Decoded /\ typ.t = "Union") =>
        /\ (\A i \in 1..Len(typ.args) : MemberRejects(i)) => result = Raise("JsonKeyError")
        /\ \A i \in 1..(Len(typ.args) - 1) : InnerUnionExhausted(i) => tried > i

\* an inner Union is exhausted and the outer Union returns what its next member makes
C3_Witness ==
    /\ pc = "decoded" /\ typ.t = "Union"
    /\ InnerUnionExhausted(1)
    /\ tried = 2
    /\ ~IsRaise(result)

(***************************************************************************)
(* Properties of record decoding                                           *)
(***************************************************************************)
IsRecordShape(t) == t.t \in {"dataclass", "namedtuple"}

\* the external names of the declared fields of a record shape
ExternalNames(t) == {PyStr(python_id_to_json_field(t.fields[i].name)) : i \in 1..Len(t.fields)}

\* a field with a way to be filled in when its key is absent
HasResolution(f) ==
    f.default # MISSING \/ f.default_factory # MISSING \/ is_type_optional(ResolveRefs(f.type), FALSE)

\* what an absent key resolves to: the default, else the factory's value, else None
Resolution(f) ==
    IF f.default # MISSING THEN f.default
    ELSE IF f.default_factory # MISSING THEN f.default_factory.makes
    ELSE PyNone

\* the declared fields whose external name is not a key of the data
AbsentFields(t, d) ==
    {i \in 1..Len(t.fields) : PyStr(python_id_to_json_field(t.fields[i].name)) \notin DictKeys(d.v)}

\* the values of the keys that are present decode against their fields
PresentFieldsDecode(t, d) ==
    \A i \in (1..Len(t.fields)) \ AbsentFields(t, d) :
        LET ft == ResolveRefs(t.fields[i].type) IN
        ~IsRaise(json_to_object(IF is_type_optional(ft, FALSE) THEN unwrap_optional_type(ft) ELSE ft,
                                DictGet(d.v, PyStr(python_id_to_json_field(t.fields[i].name)))))

\* C4: an object with a key that is not the external name of a declared field
\* is never decoded into a record, named tuples included: the decode fails
\* with JsonKeyError.  Stated where every declared field is present and
\* decodes, so that the undeclared key is all that is wrong with the object
C4_UndeclaredKeyRejected ==
    (pc = "decoded" /\ IsRecordShape(typ) /\ data.k = "dict"
        /\ DictKeys(data.v) \ ExternalNames(typ) # {}
        /\ AbsentFields(typ, data) = {}
        /\ PresentFieldsDecode(typ, data))
        => result = Raise("JsonKeyError")

\* C5: an absent key is resolved by the default, else the default factory,
\* else None for an Optional field, else the decode fails with JsonKeyError;
\* the same for every record shape, named tuples included
C5_MissingFieldResolution ==
    (pc = "decoded" /\ IsRecordShape(typ) /\ data.k = "dict"
        /\ DictKeys(data.v) \subseteq ExternalNames(typ)
        /\ PresentFieldsDecode(typ, data))
        => IF \E i \in AbsentFields(typ, data) : ~HasResolution(typ.fields[i])
           THEN result = Raise("JsonKeyError")
           ELSE /\ ~IsRaise(result)
                /\ \A i \in AbsentFields(typ, data) :
                       result.v[typ.fields[i].name] = Resolution(typ.fields[i])

(***************************************************************************)
(* Properties of encoding and of the round trip                            *)
(***************************************************************************)
RECURSIVE DeepEquals(_, _)
\* Python's == on native values
DeepEquals(x, y) ==
    IF x.k \in {"bool", "int", "float"} THEN PyEquals(x, y)
    ELSE IF x.k # y.k THEN FALSE
    ELSE IF x.k \in {"list", "tuple"}
    THEN Len(x.v) = Len(y.v) /\ \A i \in 1..Len(x.v) : DeepEquals(x.v[i], y.v[i])
    ELSE IF x.k = "set"
    THEN /\ \A e \in x.v : \E g \in y.v : DeepEquals(e, g)
         /\ \A g \in y.v : \E e \in x.v : DeepEquals(e, g)
    ELSE IF x.k = "dict"
    THEN /\ \A i \in 1..Len(x.v) : \E j \in 1..Len(y.v) :
                DeepEquals(x.v[i][1], y.v[j][1]) /\ DeepEquals(x.v[i][2], y.v[j][2])
         /\ \A j \in 1..Len(y.v) : \E i \in 1..Len(x.v) : DeepEquals(x.v[i][1], y.v[j][1])
    ELSE IF x.k = "instance"
    THEN x.cls = y.cls /\ \A n \in DOMAIN x.v : DeepEquals(x.v[n], y.v[n])
    ELSE x = y

\* C6: decoding what the encoder wrote for a value, against the type of the
\* value, succeeds and gives back an equal value
C6_RoundTrip == pc = "roundtrip" => (~IsRaise(result) /\ DeepEquals(result, native))

Encoded == pc \in {"encoded", "roundtrip"}

\* C7: the encoder writes a record as an object with exactly one key for every
\* field that is not None, no key for a field that is None, and no null value
C7_NoneFieldsOmitted ==
    (Encoded /\ native.k = "instance" /\ IsRecordShape(native.cls)) =>
        /\ json.k = "dict"
        /\ Cardinality(DictKeys(json.v)) = Len(json.v)
        /\ DictKeys(json.v) =
               {PyStr(python_id_to_json_field(native.cls.fields[i].name)) :
                   i \in {j \in 1..Len(native.cls.fields) : native.v[native.cls.fields[j].name] # PyNone}}
        /\ \A i \in 1..Len(json.v) : json.v[i][2] # PyNone

\* a record with a field that is None and a field that is not has been encoded
C7_Witness ==
    /\ pc = "encoded" /\ native.k = "instance" /\ IsRecordShape(native.cls)
    /\ \E n \in DOMAIN native.v : native.v[n] = PyNone
    /\ \E n \in DOMAIN native.v : native.v[n] # PyNone
    /\ json.k = "dict" /\ Len(json.v) = 1

(***************************************************************************)
(* Properties of Optional and primitive decoding and of the error kinds    *)
(***************************************************************************)
\* C8: decoding against Optional[inner] gives None for null and, for any other
\* value, the very outcome of decoding against inner: the same value or the
\* same kind of error
C8_OptionalDecode ==
    (pc = "decoded" /\ is_type_optional(typ, TRUE)) =>
        IF data = PyNone THEN result = PyNone
        ELSE result = json_to_object(unwrap_optional_type(typ), data)

\* the JSON kind a primitive type takes
JsonKindMatches(t, d) ==
    CASE t = BoolT -> d.k = "bool"
      [] t = IntT -> d.k = "int" \/ (d.k = "float" /\ d.v % 2 = 0)
      [] t = FloatT -> d.k \in {"int", "float"}
      [] OTHER -> d.k = "str"

\* C9: a primitive decodes only from its own JSON kind; a JSON boolean is a
\* type mismatch for int and for float, and every mismatch is a JsonTypeError
C9_ExactJsonKind ==
    (pc = "decoded" /\ typ \in {BoolT, IntT, FloatT, StrT}) =>
        /\ ~IsRaise(result) => JsonKindMatches(typ, data)
        /\ (data.k = "bool" /\ typ \in {IntT, FloatT}) => result = Raise("JsonTypeError")
        /\ IsRaise(result) => result = Raise("JsonTypeError")

\* C10: a decode that fails raises JsonTypeError, JsonKeyError or
\* JsonValueError, or the TypeError of an unsupported type, and nothing else
C10_ClassifiedErrors ==
    (Decoded /\ IsRaise(result)) =>
        result.exc \in {"JsonTypeError", "JsonKeyError", "JsonValueError", "TypeError"}

(***************************************************************************)
(* Properties of enumeration decoding                                      *)
(***************************************************************************)
\* C11: decoding against an enumeration returns the member whose value equals
\* the data when there is one, and fails with JsonValueError otherwise
C11_EnumDecode ==
    (pc = "decoded" /\ typ.t = "enum") =>
        IF \E i \in 1..Len(typ.values) : PyEquals(typ.values[i], data)
        THEN \E i \in 1..Len(typ.values) :
                PyEquals(typ.values[i], data) /\ result = PyEnum(typ.name, typ.values[i])
        ELSE result = Raise("JsonValueError")

(***************************************************************************)
(* Properties of the time zone of a datetime                               *)
(***************************************************************************)
\* the text without its last token
ButLast(s) == SubSeq(s, 1, Len(s) - 1)

\* the text is an ISO 8601 datetime that carries no offset
IsNaiveDatetimeText(s) ==
    ~IsRaise(DatetimeFromIso(s)) /\ DatetimeFromIso(s).v.tz = "naive"

\* C12: a datetime without time zone is not encoded (JsonValueError) and a
\* datetime text without offset is not decoded (JsonValueError, not a type
\* mismatch); a text ending in Z decodes as the same text ending in +00:00,
\* and a datetime of offset zero is written with Z in place of +00:00
C12_TimeZoneEnforced ==
    /\ (Encoded /\ native.k = "datetime") =>
          IF native.v.tz = "naive" THEN json = Raise("JsonValueError")
          ELSE /\ json.k = "str"
               /\ ButLast(json.v) = <<native.v.date, "T", native.v.time>>
               /\ json.v[Len(json.v)] = (IF native.v.tz = "+00:00" THEN "Z" ELSE native.v.tz)
    /\ (pc = "decoded" /\ typ = DatetimeT /\ data.k = "str") =>
          /\ IsNaiveDatetimeText(data.v) => result = Raise("JsonValueError")
          /\ (data.v # <<>> /\ data.v[Len(data.v)] = "Z") =>
                result = json_to_object(DatetimeT, PyStr(Append(ButLast(data.v), "+00:00")))

\* a datetime of offset zero was written with Z and read back from it
C12_Witness ==
    /\ pc = "roundtrip" /\ typ = DatetimeT
    /\ native.v.tz = "+00:00"
    /\ json = PyStr(<<"D", "T", "t", "Z">>)
    /\ result = native

(***************************************************************************)
(* Properties of the from_json hook                                        *)
(***************************************************************************)
\* C13: when the class decoded against defines from_json, the result is what
\* from_json makes of the raw data, whatever the class is: an enumeration, a
\* named tuple, a dataclass or a plain class
C13_FromJsonHook ==
    (pc = "decoded" /\ HasFromJson(typ)) => result = CallFromJson(typ, data)

(***************************************************************************)
(* Properties of the naming policy                                         *)
(***************************************************************************)
\* every field of the record holds a value, so that the encoder writes a key
\* for each of them
AllFieldsWritten(obj) == \A n \in DOMAIN obj.v : obj.v[n] # PyNone

\* C14: the decoder looks a field up under the key the encoder writes it
\* under, for dataclasses and named tuples alike: what the encoder wrote for a
\* record with every field set is decoded, against the class of the record,
\* into a record with the same value in every field
C14_NamingConsistent ==
    (/\ pc = "roundtrip"
     /\ native.k = "instance" /\ IsRecordShape(native.cls) /\ typ = native.cls
     /\ AllFieldsWritten(native))
        => /\ ~IsRaise(result)
           /\ \A n \in DOMAIN native.v : DeepEquals(result.v[n], native.v[n])

(***************************************************************************)
(* Properties of the inspection functions                                  *)
(***************************************************************************)
\* the annotation without its Annotated wrapper
Stripped == unwrap_annotated_type(typ)

\* the annotation is a union, in either spelling, with None among its members
IsUnionWithNone == Stripped.t \in {"Union", "UnionType"} /\ NoneT \in Range(Stripped.args)

\* C15 as stated: is_type_optional and is_type_union are never both true of
\* a type, and a union that has None among its members is never a union for
\* is_type_union
C15_ExactlyOneVariant ==
    pc = "is_type_union" =>
        /\ ~(result.v /\ is_type_optional(typ, FALSE))
        /\ IsUnionWithNone => ~result.v

\* C15 amended: is_type_optional with strict=True and is_type_union are never
\* both true, and exactly one of them is true of every union; a union that has
\* None among its members is a union for is_type_union exactly when it has
\* more than two members, and it is then optional (non-strict) as well
C15_StrictOptionalOrUnion ==
    pc = "is_type_union" =>
        /\ ~(result.v /\ is_type_optional(typ, TRUE))
        /\ Stripped.t \in {"Union", "UnionType"} => (result.v \/ is_type_optional(typ, TRUE))
        /\ Stripped.t \notin {"Union", "UnionType"} => ~result.v
        /\ IsUnionWithNone => (result.v <=> Len(Stripped.args) > 2)
        /\ (IsUnionWithNone /\ result.v) => is_type_optional(typ, FALSE)

\* Union[int, str, None] is a union and is optional
C15_Witness ==
    /\ pc = "is_type_union"
    /\ typ = UnionT(<<IntT, StrT, NoneT>>)
    /\ result = PyBool(TRUE)
    /\ is_type_optional(typ, FALSE)

\* the members of the union that are not None, in their declared order
NonNoneMembers == SelectSeq(Stripped.args, LAMBDA a : a # NoneT)

\* the single member that is left, or the Union of those that are left
InnerOfOptional == IF Len(NonNoneMembers) = 1 THEN NonNoneMembers[1] ELSE UnionT(NonNoneMembers)

\* is_type_optional is true exactly of a union with None among its members,
\* and with strict=True exactly when the union has two members besides
OptionalRecognised ==
    pc = "is_type_optional" =>
        result.v = (IsUnionWithNone /\ (data.v => Len(Stripped.args) = 2))

\* unwrap_optional_type gives the inner type, under the Annotated wrapper of
\* the type when it has one
OptionalUnwrapped ==
    (pc = "unwrap_optional_type" /\ IsUnionWithNone) =>
        result = (IF is_type_annotated(typ) THEN AnnotatedT(InnerOfOptional) ELSE InnerOfOptional)

\* C16: is_type_optional is true exactly of the unions that have None among
\* their members, wherever None stands and however many members there are
\* (exactly two with strict=True), false of every other type, and unwrapping
\* an optional type gives the one member left or the Union of those left
C16_OptionalUnwrap == OptionalRecognised /\ OptionalUnwrapped

RECURSIVE LeavesOf(_, _)
\* the types without arguments met in t from argument i on, read from left to
\* right, None left out
LeavesOf(t, i) ==
    IF "args" \in DOMAIN t
    THEN IF i > Len(t.args) THEN <<>> ELSE LeavesOf(t.args[i], 1) \o LeavesOf(t, i + 1)
    ELSE IF t = NoneT THEN <<>> ELSE <<t>>

\* C17: get_referenced_types gives the types without arguments that the
\* annotation refers to, from left to right, through every generic argument
\* and through Annotated; never None, never a generic or a union itself; the
\* empty list for None and [T] for a plain type T
C17_ReferencedTypes ==
    pc = "get_referenced_types" =>
        /\ result.v = LeavesOf(typ, 1)
        /\ NoneT \notin Range(result.v)
        /\ \A e \in Range(result.v) : "args" \notin DOMAIN e
        /\ typ = NoneT => result.v = <<>>
        /\ (typ # NoneT /\ "args" \notin DOMAIN typ) => result.v = <<typ>>

\* the key type, then the enumeration under List and Optional, None left out
C17_Witness ==
    /\ pc = "get_referenced_types"
    /\ typ = DictT(StrT, ListT(OptionalT(Side)))
    /\ result = PyList(<<StrT, Side>>)

(***************************************************************************)
(* Properties of tuple decoding                                            *)
(***************************************************************************)
Min(a, b) == IF a < b THEN a ELSE b

\* the outcome of decoding item i of the array against member i of the tuple
ItemOutcome(i) == json_to_object(typ.args[i], data.v[i])

\* C18: an array of n items decodes against a tuple of k members into the
\* tuple of the first min(n, k) items, each decoded against the member at its
\* position, whatever n is; the items after position k are not decoded, so
\* that only one of the first min(n, k) items can make the decode fail; a
\* value that is not an array is a JsonTypeError
C18_TupleTruncates ==
    (Decoded /\ typ.t = "tuple") =>
        IF data.k # "list" THEN result = Raise("JsonTypeError")
        ELSE LET m == Min(Len(data.v), Len(typ.args)) IN
             IF \A i \in 1..m : ~IsRaise(ItemOutcome(i))
             THEN /\ result.k = "tuple"
                  /\ Len(result.v) = m
                  /\ \A i \in 1..m : result.v[i] = ItemOutcome(i)
             ELSE \E i \in 1..m :
                     /\ IsRaise(ItemOutcome(i))
                     /\ \A j \in 1..(i - 1) : ~IsRaise(ItemOutcome(j))
                     /\ result = ItemOutcome(i)

\* the array is longer than the tuple and its last item decodes against no
\* member: the decode returns the tuple of the first item
C18_Witness ==
    /\ pc = "decoded"
    /\ typ = TupleT(<<IntT>>)
    /\ data = PyList(<<PyInt(1), PyStr(<<"a">>)>>)
    /\ result = PyTuple(<<PyInt(1)>>)

(***************************************************************************)
(* Properties of map encoding                                              *)
(***************************************************************************)
\* the key of the object for one key of the map: the value of an enumeration
\* member, the text of any other key
RenderedKey(key) == IF key.k = "enum" THEN key.v ELSE ToStr(key)

\* C19: a map is encoded as the object that has, for every item of the map,
\* the value of the key when the key is an enumeration member and the text of
\* the key otherwise, each key by itself, with the encoded value of the item;
\* so for the empty map and for a map of both kinds of keys in any order
C19_MapKeysPerKey ==
    (Encoded /\ native.k = "dict"
        /\ \A i \in 1..Len(native.v) : ~IsRaise(object_to_json(native.v[i][2])))
        => json = PyDict(DictFromPairs(
                     [i \in 1..Len(native.v) |->
                         <<RenderedKey(native.v[i][1]), object_to_json(native.v[i][2])>>]))

(***************************************************************************)
(* Termination of a decode and of an encode                                *)
(***************************************************************************)
Max(S) == IF S = {} THEN 0 ELSE CHOOSE m \in S : \A n \in S : n <= m

RECURSIVE ValueDepth(_)
\* the nesting depth of a JSON value or of a native value
ValueDepth(v) ==
    CASE v.k \in {"list", "tuple"} -> 1 + Max({ValueDepth(v.v[i]) : i \in 1..Len(v.v)})
      [] v.k = "set" -> 1 + Max({ValueDepth(e) : e \in v.v})
      [] v.k = "dict" -> 1 + Max({ValueDepth(v.v[i][2]) : i \in 1..Len(v.v)})
      [] v.k = "instance" -> 1 + Max({ValueDepth(v.v[n]) : n \in DOMAIN v.v})
      [] OTHER -> 0

RECURSIVE ExprDepth(_)
\* the nesting depth of a type expression; a class is a leaf of the
\* expression, whatever its fields refer to
ExprDepth(t) ==
    IF "args" \in DOMAIN t THEN 1 + Max({ExprDepth(t.args[i]) : i \in 1..Len(t.args)}) ELSE 0

\* the call of frame g, made by the call of frame f, is given a strictly
\* smaller part of the value, or the same value and a strictly smaller part
\* of the type expression
Smaller(g, f) ==
    IF f.fn = "json_to_object"
    THEN \/ ValueDepth(g.data) < ValueDepth(f.data)
         \/ g.data = f.data /\ ExprDepth(g.typ) < ExprDepth(f.typ)
    ELSE ValueDepth(g.obj) < ValueDepth(f.obj)

\* every call on the stack descends from the call that made it, and the stack
\* is no deeper than the nesting of the outermost value allows: at most one
\* call on the same value between two descents into the value
Descends ==
    /\ \A i \in 2..Len(stack) : Smaller(stack[i], stack[i - 1])
    /\ pc = "called" =>
          Len(stack) <= (IF data # Nothing THEN 2 * (ValueDepth(data) + 1) ELSE ValueDepth(native) + 1)

\* the outcome the outermost call leaves is that of the function
CallsAgree ==
    pc = "returned" =>
        IF data # Nothing THEN result = json_to_object(typ, data) ELSE json = object_to_json(native)

\* C20: every decode and every encode returns or raises after finitely many
\* calls, self-referential classes included, and every recursive call descends
\* into a strictly smaller part of the value or of the type expression, which
\* bounds the depth of the recursion by the nesting of the value and the type
C20_Terminates == []Descends /\ <>(pc = "returned")

\* the decode of a node is called within the decode of a node, itself called
\* within the decode of a node
C20_Witness ==
    /\ pc = "called"
    /\ Len(stack) = 3
    /\ \A i \in 1..3 : stack[i].fn = "json_to_object" /\ stack[i].typ = Node

(***************************************************************************)
(* Properties of a key that is present with the value null                 *)
(***************************************************************************)
\* the object without the key
WithoutKey(d, key) == PyDict(SelectSeq(d.v, LAMBDA pair : pair[1] # key))

\* the fields of shape Optional whose key is present with the value null
NullFields(t, d) ==
    {i \in 1..Len(t.fields) :
        /\ is_type_optional(ResolveRefs(t.fields[i].type), FALSE)
        /\ PyStr(python_id_to_json_field(t.fields[i].name)) \in DictKeys(d.v)
        /\ DictGet(d.v, PyStr(python_id_to_json_field(t.fields[i].name))) = PyNone}

\* C21: an object that holds the key of an Optional field with the value null
\* decodes to the same record as the object without the key, the field being
\* None in both; stated where the object without the key decodes
C21_NullAsMissing ==
    (pc = "decoded" /\ typ.t \in {"dataclass", "namedtuple", "class"} /\ data.k = "dict")
        => \A i \in NullFields(typ, data) :
               LET omitted == json_to_object(typ, WithoutKey(data, PyStr(python_id_to_json_field(typ.fields[i].name))))
               IN (~IsRaise(omitted) /\ omitted.v[typ.fields[i].name] = PyNone) => result = omitted

====
